---- MODULE Spec2Model ----
(***************************************************************************)
(* Pixel accumulation of the resize crate (src/px.rs): the four            *)
(* PixelFormat implementations (Rgb, Rgba, RgbaPremultiply, Gray) over the *)
(* integer sample types u8 and u16, with the calculation type fpN being    *)
(* half::f16 (feature "fp16"): the associated items the code uses          *)
(* (fpN::ZERO, fpN::ONE, fpN::from_f32, fpN::from_f64, to_f64) exist with  *)
(* these signatures on f16 only, so this is the one build of px.rs.        *)
(*                                                                         *)
(* fpN values are modelled bit-exactly as IEEE-754 binary floating point   *)
(* numbers: a record [k, s, m, e] with k in {"fin","inf","nan"}, sign s,   *)
(* and for finite values the magnitude m * 2^e with m odd (m = 0, e = 0    *)
(* for zero).  Arithmetic rounds to nearest, ties to even, with gradual    *)
(* underflow and overflow to infinity, in the precision of f16.            *)
(***************************************************************************)
EXTENDS Integers, Sequences, FiniteSets, TLC

VARIABLES ty, A, B, rowA, rowsB, out, last

vars == <<ty, A, B, rowA, rowsB, out, last>>

----------------------------------------------------------------------------
(* Integer helpers (all intermediate numbers stay below 2^31).             *)

Pow2Table ==
    <<1, 2, 4, 8, 16, 32, 64, 128, 256, 512, 1024, 2048, 4096, 8192, 16384,
      32768, 65536, 131072, 262144, 524288, 1048576, 2097152, 4194304,
      8388608, 16777216, 33554432, 67108864, 134217728, 268435456,
      536870912, 1073741824>>

\* 2^k for k <= 30 (1 for k <= 0)
Pow2(k) == IF k <= 0 THEN 1 ELSE Pow2Table[k + 1]

\* the number of binary digits of n, 0 <= n < 2^31
Bits(n) ==
    IF n < 65536
    THEN IF n < 256
         THEN IF n < 16
              THEN IF n < 4 THEN (IF n < 2 THEN n ELSE 2)
                   ELSE (IF n < 8 THEN 3 ELSE 4)
              ELSE IF n < 64 THEN (IF n < 32 THEN 5 ELSE 6)
                   ELSE (IF n < 128 THEN 7 ELSE 8)
         ELSE IF n < 4096
              THEN IF n < 1024 THEN (IF n < 512 THEN 9 ELSE 10)
                   ELSE (IF n < 2048 THEN 11 ELSE 12)
              ELSE IF n < 16384 THEN (IF n < 8192 THEN 13 ELSE 14)
                   ELSE (IF n < 32768 THEN 15 ELSE 16)
    ELSE IF n < 16777216
         THEN IF n < 1048576
              THEN IF n < 262144 THEN (IF n < 131072 THEN 17 ELSE 18)
                   ELSE (IF n < 524288 THEN 19 ELSE 20)
              ELSE IF n < 4194304 THEN (IF n < 2097152 THEN 21 ELSE 22)
                   ELSE (IF n < 8388608 THEN 23 ELSE 24)
         ELSE IF n < 268435456
              THEN IF n < 67108864 THEN (IF n < 33554432 THEN 25 ELSE 26)
                   ELSE (IF n < 134217728 THEN 27 ELSE 28)
              ELSE IF n < 1073741824 THEN (IF n < 536870912 THEN 29 ELSE 30)
                   ELSE 31

Max(a, b) == IF a >= b THEN a ELSE b

Min(a, b) == IF a <= b THEN a ELSE b

----------------------------------------------------------------------------
(* The calculation type fpN.                                               *)

\* significand bits of fpN = f16
Prec == 11

\* exponent of the least subnormal bit of f16: 2^-24
EminSub == -24

\* finite values of f16 are below 2^EmaxExp = 2^16
EmaxExp == 16

NaN == [k |-> "nan", s |-> 0, m |-> 0, e |-> 0]

Inf(s) == [k |-> "inf", s |-> s, m |-> 0, e |-> 0]

Zero(s) == [k |-> "fin", s |-> s, m |-> 0, e |-> 0]

RECURSIVE Canon(_, _, _)
Canon(s, m, e) ==
    IF m = 0 THEN Zero(s)
    ELSE IF m % 2 = 0 THEN Canon(s, m \div 2, e + 1)
    ELSE [k |-> "fin", s |-> s, m |-> m, e |-> e]

IsFin(x) == x.k = "fin"

IsZero(x) == x.k = "fin" /\ x.m = 0

\* Round the exact magnitude in [M * 2^E, (M+1) * 2^E) (strictly above
\* M * 2^E iff sticky) to fpN: nearest, ties to even.  0 <= M < 2^31, and
\* when sticky holds M has more than Prec + 1 bits.
Round(s, M, E, sticky) ==
    IF M = 0 THEN Zero(s)
    ELSE
      LET nb == Bits(M)
          et == Max(E + nb - Prec, EminSub)
          k  == et - E
      IN IF k <= 0
         THEN IF E + nb > EmaxExp THEN Inf(s) ELSE Canon(s, M, E)
         ELSE IF k > nb THEN Zero(s)
         ELSE
           LET q    == M \div Pow2(k)
               rem  == M % Pow2(k)
               half == Pow2(k - 1)
               up   == rem > half \/ (rem = half /\ (sticky \/ q % 2 = 1))
               q2   == IF up THEN q + 1 ELSE q
           IN IF q2 = 0 THEN Zero(s)
              ELSE IF Bits(q2) + et > EmaxExp THEN Inf(s)
              ELSE Canon(s, q2, et)

\* fpN::from(n) / fpN::from_f32(n as f32) for a non-negative integer n < 2^31
FromInt(n) == Round(0, n, 0, FALSE)

\* x * y in fpN
Fmul(x, y) ==
    LET s == (x.s + y.s) % 2 IN
    IF x.k = "nan" \/ y.k = "nan" THEN NaN
    ELSE IF x.k = "inf" \/ y.k = "inf"
         THEN IF IsZero(x) \/ IsZero(y) THEN NaN ELSE Inf(s)
    ELSE IF x.m = 0 \/ y.m = 0 THEN Zero(s)
    ELSE
      \* 48-bit product of two 24-bit significands, in 12-bit limbs
      LET a1  == x.m \div 4096
          a0  == x.m % 4096
          b1  == y.m \div 4096
          b0  == y.m % 4096
          mid == a1 * b0 + a0 * b1
          t   == a0 * b0 + (mid % 4096) * 4096
          lo  == t % 16777216
          hi  == a1 * b1 + (mid \div 4096) + (t \div 16777216)
          E   == x.e + y.e
      IN IF hi = 0 THEN Round(s, lo, E, FALSE)
         ELSE
           LET d == Max(0, Bits(hi) + 24 - 30)
               M == hi * Pow2(24 - d) + (lo \div Pow2(d))
           IN Round(s, M, E + d, (lo % Pow2(d)) # 0)

\* x + y in fpN
Fadd(x, y) ==
    IF x.k = "nan" \/ y.k = "nan" THEN NaN
    ELSE IF x.k = "inf"
         THEN IF y.k = "inf" /\ y.s # x.s THEN NaN ELSE x
    ELSE IF y.k = "inf" THEN y
    ELSE IF x.m = 0 /\ y.m = 0 THEN Zero(IF x.s = 1 /\ y.s = 1 THEN 1 ELSE 0)
    ELSE IF x.m = 0 THEN y
    ELSE IF y.m = 0 THEN x
    ELSE
      LET big   == IF x.e >= y.e THEN x ELSE y
          small == IF x.e >= y.e THEN y ELSE x
          d     == big.e - small.e
          nb    == Bits(big.m)
      IN IF nb + d <= 30
         THEN \* exact sum at the smaller exponent
           LET bm  == big.m * Pow2(d)
               sum == (IF big.s = 1 THEN -bm ELSE bm)
                      + (IF small.s = 1 THEN -small.m ELSE small.m)
           IN IF sum = 0 THEN Zero(0)
              ELSE IF sum < 0 THEN Round(1, -sum, small.e, FALSE)
              ELSE Round(0, sum, small.e, FALSE)
         ELSE \* the smaller operand only reaches the low bits
           LET t  == 30 - nb
               H  == big.m * Pow2(t)
               sh == d - t
               q  == IF sh >= 25 THEN 0 ELSE small.m \div Pow2(sh)
           IN IF big.s = small.s
              THEN Round(big.s, H + q, big.e - t, TRUE)
              ELSE Round(big.s, H - q - 1, big.e - t, TRUE)

\* floor(2^n / m) and whether a remainder is left, by long division
RECURSIVE DivStep(_, _, _, _)
DivStep(q, r, m, n) ==
    IF n = 0 THEN <<q, r # 0>>
    ELSE IF 2 * r >= m THEN DivStep(2 * q + 1, 2 * r - m, m, n - 1)
    ELSE DivStep(2 * q, 2 * r, m, n - 1)

\* fpN::ONE / x
Frecip(x) ==
    IF x.k = "nan" THEN NaN
    ELSE IF x.k = "inf" THEN Zero(x.s)
    ELSE IF x.m = 0 THEN Inf(x.s)
    ELSE
      LET n  == Bits(x.m) + 28
          qr == DivStep(0, 1, x.m, n)
      IN Round(x.s, qr[1], -x.e - n, qr[2])

\* x > fpN::ZERO
Fgt0(x) == x.k # "nan" /\ x.s = 0 /\ (x.k = "inf" \/ x.m > 0)

\* AsUint with a cast that wraps modulo max + 1 in place of saturating
AsUintWrap(x, max) ==
    IF x.k # "fin" \/ x.m = 0 THEN 0
    ELSE LET mag == IF x.e >= 0
                    THEN (IF Bits(x.m) + x.e > 30 THEN 0 ELSE x.m * Pow2(x.e))
                    ELSE (IF -x.e > 30 THEN 0 ELSE x.m \div Pow2(-x.e))
         IN IF x.s = 1 THEN (max + 1 - (mag % (max + 1))) % (max + 1)
            ELSE mag % (max + 1)

\* `as` cast of an fpN to an unsigned integer with maximum max: truncation
\* toward zero, saturating at the ends of the range, NaN to 0
AsUint(x, max) ==
    IF x.k = "nan" THEN 0
    ELSE IF x.s = 1 THEN 0
    ELSE IF x.k = "inf" THEN max
    ELSE IF x.m = 0 THEN 0
    ELSE IF x.e >= 0
         THEN IF Bits(x.m) + x.e > 17 THEN max ELSE Min(x.m * Pow2(x.e), max)
    ELSE IF -x.e > 30 THEN 0
    ELSE Min(x.m \div Pow2(-x.e), max)

----------------------------------------------------------------------------
(* trait ToFloat: conversion between a sample type and fpN.               *)

Half == [k |-> "fin", s |-> 0, m |-> 1, e |-> -1]

One == [k |-> "fin", s |-> 0, m |-> 1, e |-> 0]

MinusOne == [k |-> "fin", s |-> 1, m |-> 1, e |-> 0]

\* <u8 as ToFloat>::to_float: fpN::from(self)
u8_to_float(n) == FromInt(n)

\* u8_from_float that truncates without adding one-half
u8_from_float_NoHalf(f) == AsUint(f, 255)

\* <u8 as ToFloat>::from_float: (f + fpN::from_f32(0.5)).as_()
u8_from_float(f) == AsUint(Fadd(f, Half), 255)

\* <u16 as ToFloat>::to_float: fpN::from_f32(self as f32)
u16_to_float(n) == FromInt(n)

\* <u16 as ToFloat>::from_float: (f + fpN::from_f32(0.5)).as_()
u16_from_float(f) == AsUint(Fadd(f, Half), 65535)

\* F::to_float / T::from_float for the sample type t of the format
to_float(t, n) == IF t = "u8" THEN u8_to_float(n) ELSE u16_to_float(n)

from_float(t, f) == IF t = "u8" THEN u8_from_float(f) ELSE u16_from_float(f)

TypeMax(t) == IF t = "u8" THEN 255 ELSE 65535

----------------------------------------------------------------------------
(* impl PixelFormat for formats::Rgb<T, F>                                 *)

Rgb_new == [r |-> Zero(0), g |-> Zero(0), b |-> Zero(0)]

Rgb_add(t, acc, inp, coeff) ==
    [r |-> Fadd(acc.r, Fmul(to_float(t, inp.r), coeff)),
     g |-> Fadd(acc.g, Fmul(to_float(t, inp.g), coeff)),
     b |-> Fadd(acc.b, Fmul(to_float(t, inp.b), coeff))]

Rgb_add_acc(acc, inp, coeff) ==
    [r |-> Fadd(acc.r, Fmul(inp.r, coeff)),
     g |-> Fadd(acc.g, Fmul(inp.g, coeff)),
     b |-> Fadd(acc.b, Fmul(inp.b, coeff))]

Rgb_into_pixel(t, acc) ==
    [r |-> from_float(t, acc.r),
     g |-> from_float(t, acc.g),
     b |-> from_float(t, acc.b)]

(* impl PixelFormat for formats::Rgba<T, F>                                *)

Rgba_new == [r |-> Zero(0), g |-> Zero(0), b |-> Zero(0), a |-> Zero(0)]

\* Rgba_add whose alpha line forgets the weight
Rgba_add_UnweightedAlpha(t, acc, inp, coeff) ==
    [r |-> Fadd(acc.r, Fmul(to_float(t, inp.r), coeff)),
     g |-> Fadd(acc.g, Fmul(to_float(t, inp.g), coeff)),
     b |-> Fadd(acc.b, Fmul(to_float(t, inp.b), coeff)),
     a |-> Fadd(acc.a, to_float(t, inp.a))]

Rgba_add(t, acc, inp, coeff) ==
    [r |-> Fadd(acc.r, Fmul(to_float(t, inp.r), coeff)),
     g |-> Fadd(acc.g, Fmul(to_float(t, inp.g), coeff)),
     b |-> Fadd(acc.b, Fmul(to_float(t, inp.b), coeff)),
     a |-> Fadd(acc.a, Fmul(to_float(t, inp.a), coeff))]

Rgba_add_acc(acc, inp, coeff) ==
    [r |-> Fadd(acc.r, Fmul(inp.r, coeff)),
     g |-> Fadd(acc.g, Fmul(inp.g, coeff)),
     b |-> Fadd(acc.b, Fmul(inp.b, coeff)),
     a |-> Fadd(acc.a, Fmul(inp.a, coeff))]

Rgba_into_pixel(t, acc) ==
    [r |-> from_float(t, acc.r),
     g |-> from_float(t, acc.g),
     b |-> from_float(t, acc.b),
     a |-> from_float(t, acc.a)]

(* impl PixelFormat for formats::RgbaPremultiply<T, F>                     *)

RgbaPremultiply_new == [r |-> Zero(0), g |-> Zero(0), b |-> Zero(0), a |-> Zero(0)]

\* RgbaPremultiply_add that accumulates the raw weighted colour and the raw
\* weighted alpha, as Rgba does
RgbaPremultiply_add_Plain(t, acc, inp, coeff) ==
    [r |-> Fadd(acc.r, Fmul(to_float(t, inp.r), coeff)),
     g |-> Fadd(acc.g, Fmul(to_float(t, inp.g), coeff)),
     b |-> Fadd(acc.b, Fmul(to_float(t, inp.b), coeff)),
     a |-> Fadd(acc.a, Fmul(to_float(t, inp.a), coeff))]

RgbaPremultiply_add(t, acc, inp, coeff) ==
    LET a_coeff == Fmul(to_float(t, inp.a), coeff)
    IN [r |-> Fadd(acc.r, Fmul(to_float(t, inp.r), a_coeff)),
        g |-> Fadd(acc.g, Fmul(to_float(t, inp.g), a_coeff)),
        b |-> Fadd(acc.b, Fmul(to_float(t, inp.b), a_coeff)),
        a |-> Fadd(acc.a, a_coeff)]

RgbaPremultiply_add_acc(acc, inp, coeff) ==
    [r |-> Fadd(acc.r, Fmul(inp.r, coeff)),
     g |-> Fadd(acc.g, Fmul(inp.g, coeff)),
     b |-> Fadd(acc.b, Fmul(inp.b, coeff)),
     a |-> Fadd(acc.a, Fmul(inp.a, coeff))]

\* the branch of into_pixel that divides: acc.a > fpN::ZERO
RgbaPremultiply_divides(acc) == Fgt0(acc.a)

\* RgbaPremultiply_into_pixel without the zero-alpha branch
RgbaPremultiply_into_pixel_AlwaysDivide(t, acc) ==
    LET inv == Frecip(acc.a)
    IN [r |-> from_float(t, Fmul(acc.r, inv)),
        g |-> from_float(t, Fmul(acc.g, inv)),
        b |-> from_float(t, Fmul(acc.b, inv)),
        a |-> from_float(t, acc.a)]

RgbaPremultiply_into_pixel(t, acc) ==
    IF RgbaPremultiply_divides(acc)
    THEN LET inv == Frecip(acc.a)
         IN [r |-> from_float(t, Fmul(acc.r, inv)),
             g |-> from_float(t, Fmul(acc.g, inv)),
             b |-> from_float(t, Fmul(acc.b, inv)),
             a |-> from_float(t, acc.a)]
    ELSE LET zero == from_float(t, Zero(0))
         IN [r |-> zero, g |-> zero, b |-> zero, a |-> zero]

(* impl PixelFormat for formats::Gray<F, T>: the field v is Gray's .0      *)

Gray_new == [v |-> Zero(0)]

Gray_add(t, acc, inp, coeff) ==
    [v |-> Fadd(acc.v, Fmul(to_float(t, inp.v), coeff))]

\* Gray_add_acc that forgets the weight
Gray_add_acc_Unweighted(acc, inp, coeff) ==
    [v |-> Fadd(acc.v, inp.v)]

Gray_add_acc(acc, inp, coeff) ==
    [v |-> Fadd(acc.v, Fmul(inp.v, coeff))]

Gray_into_pixel(t, acc) == [v |-> from_float(t, acc.v)]

----------------------------------------------------------------------------
(* The four formats side by side: one accumulation per pixel format, fed   *)
(* the same samples and weights.  A sample is a record [r, g, b, a] of     *)
(* integers of the sample type; each format reads its InputPixel from it.  *)

Formats == {"Rgb", "Rgba", "RgbaPremultiply", "Gray"}

Chans(f) ==
    CASE f = "Rgb" -> {"r", "g", "b"}
      [] f = "Gray" -> {"v"}
      [] OTHER -> {"r", "g", "b", "a"}

\* InputPixel of format f read from the sample s (Gray takes the red value)
InputPixel(f, s) ==
    CASE f = "Rgb" -> [r |-> s.r, g |-> s.g, b |-> s.b]
      [] f = "Gray" -> [v |-> s.r]
      [] OTHER -> s

new(f) ==
    CASE f = "Rgb" -> Rgb_new
      [] f = "Rgba" -> Rgba_new
      [] f = "RgbaPremultiply" -> RgbaPremultiply_new
      [] OTHER -> Gray_new

add(t, f, acc, s, coeff) ==
    CASE f = "Rgb" -> Rgb_add(t, acc, InputPixel(f, s), coeff)
      [] f = "Rgba" -> Rgba_add(t, acc, InputPixel(f, s), coeff)
      [] f = "RgbaPremultiply" -> RgbaPremultiply_add(t, acc, InputPixel(f, s), coeff)
      [] OTHER -> Gray_add(t, acc, InputPixel(f, s), coeff)

add_acc(f, acc, inp, coeff) ==
    CASE f = "Rgb" -> Rgb_add_acc(acc, inp, coeff)
      [] f = "Rgba" -> Rgba_add_acc(acc, inp, coeff)
      [] f = "RgbaPremultiply" -> RgbaPremultiply_add_acc(acc, inp, coeff)
      [] OTHER -> Gray_add_acc(acc, inp, coeff)

into_pixel(t, f, acc) ==
    CASE f = "Rgb" -> Rgb_into_pixel(t, acc)
      [] f = "Rgba" -> Rgba_into_pixel(t, acc)
      [] f = "RgbaPremultiply" -> RgbaPremultiply_into_pixel(t, acc)
      [] OTHER -> Gray_into_pixel(t, acc)

----------------------------------------------------------------------------
(* Inputs and bounds.                                                      *)

\* first-axis folds (samples) per output sample; every second-axis fold takes
\* a row of at least one sample, so it bounds the second-axis folds as well
MaxFolds == 2

SampleTypes == {"u8", "u16"}

\* input samples of each sample type: opaque, fully transparent with colour,
\* and partly covered
Samples(t) ==
    IF t = "u8"
    THEN {[r |-> 255, g |-> 0, b |-> 0, a |-> 255],
          [r |-> 0, g |-> 255, b |-> 0, a |-> 0],
          [r |-> 17, g |-> 254, b |-> 129, a |-> 128]}
    ELSE {[r |-> 65535, g |-> 0, b |-> 0, a |-> 65535],
          [r |-> 0, g |-> 65535, b |-> 0, a |-> 0],
          [r |-> 2049, g |-> 40001, b |-> 513, a |-> 32768]}

\* first-axis weights 0, 1/2, 1 and second-axis weights -1, 1
Weights == {Zero(0), Half, One}

Weights2 == {MinusOne, One}

None == [none |-> TRUE]

Fresh == [f \in Formats |-> new(f)]

TotalFolds(rows) ==
    LET RECURSIVE Sum(_)
        Sum(q) == IF q = <<>> THEN 0 ELSE Len(Head(q)[1]) + Sum(Tail(q))
    IN Sum(rows)

----------------------------------------------------------------------------
(* State machine.  A is the first-axis accumulator, B the second-axis      *)
(* accumulator (one of each per format); rowA lists the <<sample, weight>> *)
(* pairs folded into A since its new(), rowsB the <<row, weight>> pairs    *)
(* folded into B; out is the finalized pixel; last is the last operation.  *)

Init ==
    /\ ty \in SampleTypes
    /\ A = Fresh
    /\ B = Fresh
    /\ rowA = <<>>
    /\ rowsB = <<>>
    /\ out = None
    /\ last = [op |-> "new"]

\* PixelFormat::add(&self, acc, inp, coeff) on the first-axis accumulator
Add(s, w) ==
    /\ out = None
    /\ Len(rowA) + TotalFolds(rowsB) < MaxFolds
    /\ A' = [f \in Formats |-> add(ty, f, A[f], s, w)]
    /\ rowA' = Append(rowA, <<s, w>>)
    /\ last' = [op |-> "add", s |-> s, w |-> w]
    /\ UNCHANGED <<ty, B, rowsB, out>>

\* PixelFormat::add_acc(acc, inp, coeff): the second-axis accumulator takes
\* the first-axis accumulator (passed by value)
AddAcc(v) ==
    /\ out = None
    /\ rowA # <<>>
    /\ last.op # "add_acc"
    /\ B' = [f \in Formats |-> add_acc(f, B[f], A[f], v)]
    /\ rowsB' = Append(rowsB, <<rowA, v>>)
    /\ last' = [op |-> "add_acc", v |-> v]
    /\ UNCHANGED <<ty, A, rowA, out>>

\* PixelFormat::new() for the next row's first-axis accumulator
NewRow ==
    /\ out = None
    /\ last.op = "add_acc"
    /\ TotalFolds(rowsB) < MaxFolds
    /\ A' = Fresh
    /\ rowA' = <<>>
    /\ last' = [op |-> "new_row"]
    /\ UNCHANGED <<ty, B, rowsB, out>>

\* PixelFormat::into_pixel(&self, acc) of the first-axis accumulator (a
\* single-axis fold) or of the second-axis accumulator
IntoPixel(src) ==
    /\ out = None
    /\ IF src = "A" THEN rowsB = <<>> ELSE rowsB # <<>>
    /\ out' = [f \in Formats |->
                 into_pixel(ty, f, IF src = "A" THEN A[f] ELSE B[f])]
    /\ last' = [op |-> "into_pixel", src |-> src]
    /\ UNCHANGED <<ty, A, B, rowA, rowsB>>

\* PixelFormat::new() twice: fresh accumulators for the next output sample
New ==
    /\ out # None
    /\ A' = Fresh
    /\ B' = Fresh
    /\ rowA' = <<>>
    /\ rowsB' = <<>>
    /\ out' = None
    /\ last' = [op |-> "new"]
    /\ UNCHANGED <<ty>>

Next ==
    \/ \E s \in Samples(ty), w \in Weights : Add(s, w)
    \/ \E v \in Weights2 : AddAcc(v)
    \/ NewRow
    \/ \E src \in {"A", "B"} : IntoPixel(src)
    \/ New

Spec == Init /\ [][Next]_vars

----------------------------------------------------------------------------
(* T::from_float on its own: the narrowing of one fpN value.               *)

\* fpN values handed to from_float: s * m * 2^e rounded into fpN (so every
\* input is a value of fpN), infinities and NaN.  They include
\* 254.5 = 509 * 2^-1, fpN::from_f32(254.49) = the rounding of
\* 16678257 * 2^-16, the fpN next below 254.5 = 2035 * 2^-3, and the
\* largest fpN below 1/2 = 2047 * 2^-12.
NarrowInputs ==
    {Round(s, m, e, FALSE) :
        s \in {0, 1},
        m \in {0, 1, 3, 5, 255, 509, 511, 1025, 2035, 2047, 65535, 131071,
               16678257, 16777215},
        e \in {-25, -16, -12, -3, -2, -1, 0, 3}}
    \cup {Inf(0), Inf(1), NaN}

\* T::from_float(f) for the sample type of the format
Narrow(f) ==
    /\ out = None
    /\ out' = [narrowed |-> from_float(ty, f)]
    /\ last' = [op |-> "from_float", f |-> f]
    /\ UNCHANGED <<ty, A, B, rowA, rowsB>>

NextNarrow == \E f \in NarrowInputs : Narrow(f)

SpecNarrow == Init /\ [][NextNarrow]_vars

----------------------------------------------------------------------------
(* Exact arithmetic on the values of fpN, for stating the properties: it   *)
(* uses integers only, never the rounding operations above.                *)

\* the finite value x as the integer 2 * x (x a multiple of 1/2)
Twice(x) == (IF x.s = 1 THEN -1 ELSE 1) * x.m * Pow2(x.e + 1)

\* |x| > 1/2 for a finite x
MagAboveHalf(x) == x.m # 0 /\ (IF x.m = 1 THEN x.e >= 0 ELSE Bits(x.m) + x.e >= 0)

\* x + 1/2 < 0 for a finite x
BelowMinusHalf(x) == x.s = 1 /\ MagAboveHalf(x)

\* floor(x) for a finite x >= 0, capped at 2^17
FloorOf(x) ==
    IF x.m = 0 THEN 0
    ELSE IF x.e >= 0
         THEN IF Bits(x.m) + x.e > 17 THEN 131072 ELSE x.m * Pow2(x.e)
    ELSE IF -x.e > 30 THEN 0
    ELSE x.m \div Pow2(-x.e)

\* x > n for a finite x >= 0 and an integer n
Above(x, n) == IF x.e >= 0 THEN FloorOf(x) > n ELSE FloorOf(x) >= n

\* the exact sum x + 1/2 of a finite x >= 0, as <<M, E>> with value M * 2^E
PlusHalf(x) ==
    LET E == Min(x.e, -1)
    IN <<x.m * Pow2(x.e - E) + Pow2(-1 - E), E>>

\* floor(M * 2^E) for E < 0
FloorME(M, E) == M \div Pow2(-E)

ZeroPixel(f) == [c \in Chans(f) |-> 0]

\* the accumulator the last into_pixel finalized
Finalized(f) == IF last.src = "A" THEN A[f] ELSE B[f]

----------------------------------------------------------------------------
(* C4: rounding policy of from_float.                                      *)

NarrowCase ==
    /\ last.op = "from_float"
    /\ IsFin(last.f)
    /\ last.f.s = 0
    /\ FloorME(PlusHalf(last.f)[1], PlusHalf(last.f)[2]) <= TypeMax(ty)

F254_5 == [k |-> "fin", s |-> 0, m |-> 509, e |-> -1]

\* C4: narrowing an in-range f >= 0 to u8 or u16 yields floor(f + 1/2), ties
\* rounded up (not to even); in particular 254.5 narrows to 255 for 8-bit
\* output.  (254.49 is not a value of fpN: fpN::from_f32(254.49) is 254.5.)
C4_RoundHalfUp ==
    NarrowCase =>
        /\ out.narrowed = FloorME(PlusHalf(last.f)[1], PlusHalf(last.f)[2])
        /\ (ty = "u8" /\ last.f = F254_5 => out.narrowed = 255)

----------------------------------------------------------------------------
(* C1: identity summation.                                                 *)

\* new() -> add(A, s, 1.0) -> new() -> add_acc(B, A, 1.0) -> into_pixel(B)
IdentityCase ==
    /\ last.op = "into_pixel"
    /\ last.src = "B"
    /\ Len(rowsB) = 1
    /\ rowsB[1][2] = One
    /\ Len(rowsB[1][1]) = 1
    /\ rowsB[1][1][1][2] = One

IdentitySample == rowsB[1][1][1][1]

\* C1: for every pixel format and every integer input sample s, the
\* identity summation returns exactly s in every channel.  It is stated here
\* for Rgb, Rgba and Gray, and for RgbaPremultiply when the alpha of s is
\* not zero (a sample of alpha zero carries no weight and finalizes to the
\* all-zero sample, the fallback of C2).
C1_Identity ==
    IdentityCase =>
        /\ \A f \in {"Rgb", "Rgba", "Gray"} :
              out[f] = InputPixel(f, IdentitySample)
        /\ IdentitySample.a > 0 =>
              out["RgbaPremultiply"] = IdentitySample

----------------------------------------------------------------------------
(* C2: zero-alpha fallback of RgbaPremultiply::into_pixel.                 *)

\* C2: into_pixel of a premultiplied accumulator whose alpha is zero or
\* negative (or NaN) returns the all-zero sample and does not divide; only
\* when alpha is strictly greater than zero are the colour channels divided
\* by it (multiplied by 1 / alpha) and alpha narrowed as it is.
C2_ZeroAlphaFallback ==
    last.op = "into_pixel" =>
        LET acc == Finalized("RgbaPremultiply")
            px  == out["RgbaPremultiply"]
            pos == acc.a.k # "nan" /\ acc.a.s = 0 /\ ~IsZero(acc.a)
        IN /\ RgbaPremultiply_divides(acc) <=> pos
           /\ ~pos => px = ZeroPixel("RgbaPremultiply")
           /\ pos =>
                /\ px.r = from_float(ty, Fmul(acc.r, Frecip(acc.a)))
                /\ px.g = from_float(ty, Fmul(acc.g, Frecip(acc.a)))
                /\ px.b = from_float(ty, Fmul(acc.b, Frecip(acc.a)))
                /\ px.a = from_float(ty, acc.a)

\* a negative accumulated alpha with accumulated colour, finalized to zero
C2_Witness ==
    /\ last.op = "into_pixel"
    /\ last.src = "B"
    /\ B["RgbaPremultiply"].a.s = 1
    /\ B["RgbaPremultiply"].r.m # 0
    /\ out["RgbaPremultiply"] = ZeroPixel("RgbaPremultiply")

----------------------------------------------------------------------------
(* C3: premultiplied round trip of an opaque sample.                       *)

OpaqueCase ==
    /\ last.op = "into_pixel"
    /\ last.src = "A"
    /\ Len(rowA) = 1
    /\ rowA[1][2] = One
    /\ rowA[1][1].a = TypeMax(ty)

\* C3: for every opaque input sample s (alpha the maximum of the sample
\* type), RgbaPremultiply new() -> add(acc, s, 1.0) -> into_pixel(acc)
\* returns the colour channels and the alpha of s.
C3_PremultipliedRoundTrip ==
    OpaqueCase => out["RgbaPremultiply"] = rowA[1][1]

----------------------------------------------------------------------------
(* C5: linearity.                                                          *)

LinearCase ==
    /\ last.op = "into_pixel"
    /\ last.src = "A"
    /\ Len(rowA) = 2

\* w1 * s1 + w2 * s2 in fpN, channel by channel, for the format f
DirectSum(f) ==
    LET s1 == InputPixel(f, rowA[1][1])
        s2 == InputPixel(f, rowA[2][1])
    IN [c \in Chans(f) |->
          Fadd(Fmul(rowA[1][2], to_float(ty, s1[c])),
                     Fmul(rowA[2][2], to_float(ty, s2[c])))]

\* w1 * a1 * s1 + w2 * a2 * s2 in fpN for the colour channels and
\* w1 * a1 + w2 * a2 for alpha
DirectSumPremultiplied ==
    LET s1 == rowA[1][1]
        s2 == rowA[2][1]
        e1 == Fmul(to_float(ty, s1.a), rowA[1][2])
        e2 == Fmul(to_float(ty, s2.a), rowA[2][2])
    IN [c \in Chans("RgbaPremultiply") |->
          IF c = "a" THEN Fadd(e1, e2)
          ELSE Fadd(Fmul(to_float(ty, s1[c]), e1),
                          Fmul(to_float(ty, s2[c]), e2))]

\* C5 as claimed: for every pixel format, folding s1, s2 with weights w1, w2
\* and finalizing equals finalizing the accumulator w1 * s1 + w2 * s2.
C5_Original ==
    LinearCase =>
        \A f \in Formats : out[f] = into_pixel(ty, f, DirectSum(f))

\* C5 as amended: that holds for Rgb, Rgba and Gray; for RgbaPremultiply the
\* output is the finalization of the accumulator whose colour channels are
\* w1 * a1 * s1 + w2 * a2 * s2 and whose alpha is w1 * a1 + w2 * a2 (a1, a2
\* the alphas of the samples).
C5_Linearity ==
    LinearCase =>
        /\ \A f \in {"Rgb", "Rgba", "Gray"} :
              out[f] = into_pixel(ty, f, DirectSum(f))
        /\ out["RgbaPremultiply"] =
              into_pixel(ty, "RgbaPremultiply", DirectSumPremultiplied)

C5_Witness ==
    /\ LinearCase
    /\ rowA[1][2] = Half
    /\ rowA[2][2] = One
    /\ rowA[1][1].a = 128
    /\ rowA[2][1].a = TypeMax(ty)
    /\ out["RgbaPremultiply"].a # 0
    /\ out["Rgba"].r # 0

----------------------------------------------------------------------------
(* C6: end-to-end scenario.                                                *)

Red8 == [r |-> 255, g |-> 0, b |-> 0]

Green8 == [r |-> 0, g |-> 255, b |-> 0]

EndToEndCase ==
    /\ ty = "u8"
    /\ last.op = "into_pixel"
    /\ last.src = "A"
    /\ Len(rowA) = 2
    /\ rowA[1][2] = Half
    /\ rowA[2][2] = Half
    /\ {InputPixel("Rgb", rowA[1][1]), InputPixel("Rgb", rowA[2][1])} = {Red8, Green8}

\* C6: plain RGB 8-bit, (255,0,0) and (0,255,0) folded with weights 0.5 and
\* 0.5 in either order and finalized yield exactly (128,128,0).
C6_EndToEnd ==
    EndToEndCase => out["Rgb"] = [r |-> 128, g |-> 128, b |-> 0]

C6_Witness ==
    /\ EndToEndCase
    /\ InputPixel("Rgb", rowA[1][1]) = Green8
    /\ out["Rgb"].r = 128

----------------------------------------------------------------------------
(* C7: zero-weight annihilation.                                           *)

\* C7: add(acc, s, 0) leaves every channel of the accumulator unchanged, for
\* every format, every reachable accumulator and every input sample.
C7_ZeroWeight ==
    [][(last'.op = "add" /\ last'.w = Zero(0)) => A' = A]_vars

----------------------------------------------------------------------------
(* C8: grayscale path parity.                                              *)

\* C8: fed the red channel of the Rgb input with the same weights, the Gray
\* accumulators equal the red channel of the Rgb accumulators after every
\* step, and the finalized Gray output equals the red channel of the
\* finalized Rgb output.
C8_GrayParity ==
    /\ A["Gray"].v = A["Rgb"].r
    /\ B["Gray"].v = B["Rgb"].r
    /\ last.op = "into_pixel" => out["Gray"].v = out["Rgb"].r

C8_Witness ==
    /\ last.op = "into_pixel"
    /\ Len(rowsB) = 2
    /\ B["Gray"].v.m # 0
    /\ out["Gray"].v # 0
    /\ out["Gray"].v = out["Rgb"].r

----------------------------------------------------------------------------
(* C9: premultiplied two-axis accumulation.                                *)

\* sum over i of w_i * a_i (alpha) and of c_i * (a_i * w_i) (colour) in fpN
RECURSIVE RowSum(_)
RowSum(row) ==
    IF row = <<>>
    THEN [r |-> Zero(0), g |-> Zero(0), b |-> Zero(0), a |-> Zero(0)]
    ELSE LET acc == RowSum(SubSeq(row, 1, Len(row) - 1))
             s   == row[Len(row)][1]
             e   == Fmul(to_float(ty, s.a), row[Len(row)][2])
         IN [r |-> Fadd(acc.r, Fmul(to_float(ty, s.r), e)),
             g |-> Fadd(acc.g, Fmul(to_float(ty, s.g), e)),
             b |-> Fadd(acc.b, Fmul(to_float(ty, s.b), e)),
             a |-> Fadd(acc.a, e)]

\* sum over j of v_j * RowSum(row_j), every channel alike, in fpN
RECURSIVE RowsSum(_)
RowsSum(rows) ==
    IF rows = <<>>
    THEN [r |-> Zero(0), g |-> Zero(0), b |-> Zero(0), a |-> Zero(0)]
    ELSE LET acc == RowsSum(SubSeq(rows, 1, Len(rows) - 1))
             src == RowSum(rows[Len(rows)][1])
             v   == rows[Len(rows)][2]
         IN [c \in {"r", "g", "b", "a"} |->
                Fadd(acc[c], Fmul(src[c], v))]

\* 4 * (sum over i of w_i * a_i * k_i) as an integer, k_i = 1 for alpha
RECURSIVE ExactRow(_, _)
ExactRow(row, c) ==
    IF row = <<>> THEN 0
    ELSE LET s == row[Len(row)][1]
         IN ExactRow(SubSeq(row, 1, Len(row) - 1), c)
            + 2 * Twice(row[Len(row)][2]) * s.a * (IF c = "a" THEN 1 ELSE s[c])

\* 8 * (sum over j, i of v_j * w_ij * a_ij * k_ij) as an integer
RECURSIVE ExactRows(_, _)
ExactRows(rows, c) ==
    IF rows = <<>> THEN 0
    ELSE ExactRows(SubSeq(rows, 1, Len(rows) - 1), c)
         + Twice(rows[Len(rows)][2]) * ExactRow(rows[Len(rows)][1], c)

\* C9: for RgbaPremultiply, after first-axis folds into A and second-axis
\* folds of A into B, the alpha of B is the sum of v_j * w_ij * a_ij (the
\* effective weight, not the raw alpha) and each colour channel of B the
\* sum of v_j * w_ij * a_ij * c_ij, the sums taken in fpN in the order of
\* the folds (and alpha exactly, where the samples are u8 and at most four
\* are folded, so that every partial sum is a multiple of 1/2 below 1024 and
\* none is rounded); add_acc treats the four channels alike and leaves A,
\* the running sum of its own row, as it was.  Stated of the states a fold
\* has just produced: no other operation but new() writes A or B.
C9_PremultipliedTwoAxis ==
    last.op \in {"add", "add_acc"} =>
        /\ A["RgbaPremultiply"] = RowSum(rowA)
        /\ B["RgbaPremultiply"] = RowsSum(rowsB)
        /\ (ty = "u8" /\ TotalFolds(rowsB) <= 4) =>
              4 * Twice(B["RgbaPremultiply"].a) = ExactRows(rowsB, "a")

C9_Witness ==
    /\ ty = "u8"
    /\ last.op = "add_acc"
    /\ Len(rowsB) = 2
    /\ rowsB[1][1][1][1].a = 128
    /\ rowsB[1][1][1][2] = Half
    /\ rowsB[2][2] = MinusOne
    /\ rowsB[2][1][1][1].a = 255
    /\ Twice(B["RgbaPremultiply"].a) = 2 * (64 - 255)
    /\ A["RgbaPremultiply"] = RowSum(rowsB[2][1])

----------------------------------------------------------------------------
(* C10: narrowing clamps.                                                  *)

\* the value RgbaPremultiply::into_pixel hands to from_float for a colour
\* channel c of an accumulator with alpha > 0: acc.c * (1 / acc.a)
Unpremultiplied(acc, c) == Fmul(acc[c], Frecip(acc.a))

\* a finite x narrowed to n: 0 when x + 1/2 is below zero, the maximum of
\* the type when x is above it
Clamped(x, n) ==
    IsFin(x) =>
        /\ BelowMinusHalf(x) => n = 0
        /\ (x.s = 0 /\ Above(x, TypeMax(ty))) => n = TypeMax(ty)

\* C10 as claimed: into_pixel to u8 or u16 never wraps: every output channel
\* lies in 0 .. max, a channel whose finite accumulated value plus one-half
\* is below zero narrows to 0 and one whose accumulated value is above the
\* maximum of the type narrows to that maximum, in every format.
C10_Original ==
    last.op = "into_pixel" =>
        \A f \in Formats : \A c \in Chans(f) :
            /\ out[f][c] \in 0 .. TypeMax(ty)
            /\ Clamped(Finalized(f)[c], out[f][c])

\* C10 as amended: that holds of every channel of Rgb, Rgba and Gray and of
\* the alpha of RgbaPremultiply when the accumulated alpha is above zero; a
\* colour channel of RgbaPremultiply is clamped on the value that is
\* narrowed, the accumulated colour times the reciprocal of the accumulated
\* alpha, not on the accumulated colour; and with an accumulated alpha that
\* is not above zero every channel of RgbaPremultiply is 0.
C10_ClampOnNarrow ==
    last.op = "into_pixel" =>
        /\ \A f \in Formats : \A c \in Chans(f) :
              out[f][c] \in 0 .. TypeMax(ty)
        /\ \A f \in {"Rgb", "Rgba", "Gray"} : \A c \in Chans(f) :
              Clamped(Finalized(f)[c], out[f][c])
        /\ LET acc == Finalized("RgbaPremultiply")
               px  == out["RgbaPremultiply"]
               pos == acc.a.k # "nan" /\ acc.a.s = 0 /\ ~IsZero(acc.a)
           IN /\ pos =>
                   /\ Clamped(acc.a, px.a)
                   /\ \A c \in {"r", "g", "b"} :
                         Clamped(Unpremultiplied(acc, c), px[c])
              /\ ~pos => px = ZeroPixel("RgbaPremultiply")

\* a plain channel whose sum is below -1/2 narrowed to 0, beside a
\* premultiplied colour whose quotient by a positive alpha is above the
\* maximum narrowed to the maximum, and one whose quotient is negative
\* narrowed to 0
C10_Witness ==
    /\ last.op = "into_pixel"
    /\ last.src = "B"
    /\ BelowMinusHalf(B["Rgb"].r)
    /\ out["Rgb"].r = 0
    /\ out["Gray"].v = 0
    /\ RgbaPremultiply_divides(B["RgbaPremultiply"])
    /\ IsFin(Unpremultiplied(B["RgbaPremultiply"], "g"))
    /\ Unpremultiplied(B["RgbaPremultiply"], "g").s = 0
    /\ Above(Unpremultiplied(B["RgbaPremultiply"], "g"), TypeMax(ty))
    /\ out["RgbaPremultiply"].g = TypeMax(ty)
    /\ BelowMinusHalf(Unpremultiplied(B["RgbaPremultiply"], "r"))
    /\ out["RgbaPremultiply"].r = 0

====
